---- MODULE Spec2Model ----
(***************************************************************************)
(* Model of lenstronomy/Data/imaging_data.py: the Data class (image data,  *)
(* masks, noise model, PSF convolution, resampling and fit statistics).    *)
(*                                                                         *)
(* Numbers.  A numpy float is modelled as an extended rational <<n, d>>    *)
(* in lowest terms with d >= 0: d > 0 is the rational n/d, <<1, 0>> is     *)
(* +inf, <<-1, 0>> is -inf and <<0, 0>> is nan.  Rounding and the sign of  *)
(* zero are not modelled.                                                  *)
(*                                                                         *)
(* Arrays.  A numpy array is a record [shape, flat]: shape is <<>> for a   *)
(* scalar, <<n>> for a vector, <<r, c>> for a 2d grid; flat holds the      *)
(* entries in C (row-major) order.  Index p of numpy is index p + 1 here.  *)
(***************************************************************************)
EXTENDS Integers, Sequences, FiniteSets, TLC

VARIABLES
  pc,           \* "new": before Data(...) is called; "ready": object built, no call
                \* running; "returned": a call has just returned; "failed": __init__ raised
  kwargs_data,  \* the caller's configuration bundle (a dict: DOMAIN = keys present)
  kwargs_in,    \* a copy of the bundle taken before Data(...) is called
  ctor,         \* the other constructor arguments: subgrid_res, psf_subgrid, lens_light_mask
  self,         \* the fields of the Data object
  ret,          \* the most recent call: [op, args, err, val]
  stdout,       \* the diagnostics printed by the most recent call
  f_obj         \* the caller's array passed as f to covariance_matrix, as it is after the call

vars == <<pc, kwargs_data, kwargs_in, ctor, self, ret, stdout, f_obj>>

-----------------------------------------------------------------------------
(* Extended rational arithmetic (numpy float semantics for / 0, inf, nan)  *)

RECURSIVE GCD(_, _)
GCD(a, b) == IF b = 0 THEN a ELSE GCD(b, a % b)

IAbs(n) == IF n < 0 THEN -n ELSE n
ISign(n) == IF n < 0 THEN -1 ELSE IF n > 0 THEN 1 ELSE 0

Fr(n, d) ==
  IF d = 0 THEN <<ISign(n), 0>>
  ELSE LET g == GCD(IAbs(n), IAbs(d))
           s == IF d < 0 THEN -1 ELSE 1
       IN  <<(s * n) \div g, (s * d) \div g>>

FInt(n) == <<n, 1>>
NaN == <<0, 0>>
PInf == <<1, 0>>
NInf == <<-1, 0>>
IsNaN(a) == a = NaN
IsFinite(a) == a[2] > 0

FNeg(a) == <<-a[1], a[2]>>
FAbs(a) == <<IAbs(a[1]), a[2]>>
\* common factors are divided out before multiplying
FAdd(a, b) ==
  IF a[2] = 0 /\ b[2] = 0
  THEN (IF a = b THEN a ELSE NaN)
  ELSE IF a[2] = 0 THEN a
  ELSE IF b[2] = 0 THEN b
  ELSE LET g == GCD(a[2], b[2])
       IN  Fr(a[1] * (b[2] \div g) + b[1] * (a[2] \div g), (a[2] \div g) * b[2])
FSub(a, b) == FAdd(a, FNeg(b))
FMul(a, b) ==
  IF a[1] = 0 \/ b[1] = 0 \/ a[2] = 0 \/ b[2] = 0
  THEN Fr(a[1] * b[1], a[2] * b[2])
  ELSE LET g == GCD(IAbs(a[1]), b[2])
           h == GCD(IAbs(b[1]), a[2])
       IN  Fr((a[1] \div g) * (b[1] \div h), (a[2] \div h) * (b[2] \div g))
FDiv(a, b) ==
  IF b[1] = 0 \/ b[2] = 0 THEN Fr(a[1] * b[2], a[2] * b[1])
  ELSE IF b[1] < 0 THEN FMul(a, <<-b[2], -b[1]>>)
  ELSE FMul(a, <<b[2], b[1]>>)
FSq(a) == FMul(a, a)
\* comparisons are False whenever an operand is nan
FLt(a, b) ==
  /\ ~IsNaN(a) /\ ~IsNaN(b) /\ a # b
  /\ FSub(a, b)[1] < 0
FLe(a, b) == ~IsNaN(a) /\ ~IsNaN(b) /\ (a = b \/ FLt(a, b))
FGe(a, b) == FLe(b, a)
FGt(a, b) == FLt(b, a)

RECURSIVE FSumSeq(_)
FSumSeq(s) == IF s = <<>> THEN FInt(0) ELSE FAdd(s[1], FSumSeq(Tail(s)))

\* the maximum of a non-empty sequence; nan propagates
RECURSIVE FMaxSeq(_)
FMaxSeq(s) ==
  IF Len(s) = 1 THEN s[1]
  ELSE LET m == FMaxSeq(Tail(s))
       IN  IF IsNaN(s[1]) \/ IsNaN(m) THEN NaN
           ELSE IF FLt(s[1], m) THEN m ELSE s[1]

\* integer square root (exact on perfect squares)
RECURSIVE ISqrtFrom(_, _)
ISqrtFrom(n, r) == IF (r + 1) * (r + 1) > n THEN r ELSE ISqrtFrom(n, r + 1)
ISqrt(n) == ISqrtFrom(n, 0)

-----------------------------------------------------------------------------
(* numpy arrays                                                            *)

RECURSIVE Prod(_)
Prod(s) == IF s = <<>> THEN 1 ELSE s[1] * Prod(Tail(s))

Arr(shape, flat) == [shape |-> shape, flat |-> flat]
Vec(flat) == Arr(<<Len(flat)>>, flat)
Scalar(x) == Arr(<<>>, <<x>>)
Size(a) == Len(a.flat)
IsScalar(a) == a.shape = <<>>

Const(n, x) == [i \in 1..n |-> x]
\* np.ones_like / np.zeros_like
ones_like(a) == Arr(a.shape, Const(Size(a), FInt(1)))
zeros_like(a) == Arr(a.shape, Const(Size(a), FInt(0)))
\* np.sum, np.mean, np.max over all entries
np_sum(a) == FSumSeq(a.flat)
np_mean(a) == FDiv(np_sum(a), FInt(Size(a)))
np_max(a) == FMaxSeq(a.flat)

\* a[cond]: the entries of flat at which keep holds, in order (a copy)
RECURSIVE SelectIdx(_, _, _)
SelectIdx(flat, keep, i) ==
  IF i > Len(flat) THEN <<>>
  ELSE (IF keep[i] THEN <<flat[i]>> ELSE <<>>) \o SelectIdx(flat, keep, i + 1)
BoolIndex(a, keep) == Vec(SelectIdx(a.flat, keep, 1))

\* number of True entries among keep[1..i]
RECURSIVE CountTo(_, _)
CountTo(keep, i) ==
  IF i = 0 THEN 0 ELSE CountTo(keep, i - 1) + (IF keep[i] THEN 1 ELSE 0)

\* a[cond] = values (values a vector with one entry per True of cond)
BoolAssign(a, keep, values) ==
  Arr(a.shape, [i \in 1..Size(a) |->
                  IF keep[i] THEN values[CountTo(keep, i)] ELSE a.flat[i]])
\* a[cond] = x (x a scalar)
BoolFill(a, keep, x) ==
  Arr(a.shape, [i \in 1..Size(a) |-> IF keep[i] THEN x ELSE a.flat[i]])

\* mask == 1 as a boolean vector
EqOne(a) == [i \in 1..Size(a) |-> a.flat[i] = FInt(1)]
EqZero(a) == [i \in 1..Size(a) |-> a.flat[i] = FInt(0)]

\* numpy broadcasting of two operands of at most one dimension
Len1(a) == IF IsScalar(a) THEN 1 ELSE a.shape[1]
Broadcastable(a, b) == Len1(a) = Len1(b) \/ Len1(a) = 1 \/ Len1(b) = 1
BShape(a, b) ==
  IF IsScalar(a) THEN b.shape
  ELSE IF IsScalar(b) THEN a.shape
  ELSE IF a.shape[1] = 1 THEN b.shape ELSE a.shape
At(a, i) == IF Size(a) = 1 THEN a.flat[1] ELSE a.flat[i]
\* the elementwise operators a - b, a + b, a * b, a / b, np.abs(a), a**2
np_subtract(a, b) ==
  Arr(BShape(a, b), [i \in 1..Prod(BShape(a, b)) |-> FSub(At(a, i), At(b, i))])
np_add(a, b) ==
  Arr(BShape(a, b), [i \in 1..Prod(BShape(a, b)) |-> FAdd(At(a, i), At(b, i))])
np_multiply(a, b) ==
  Arr(BShape(a, b), [i \in 1..Prod(BShape(a, b)) |-> FMul(At(a, i), At(b, i))])
np_divide(a, b) ==
  Arr(BShape(a, b), [i \in 1..Prod(BShape(a, b)) |-> FDiv(At(a, i), At(b, i))])
np_abs(a) == Arr(a.shape, [i \in 1..Size(a) |-> FAbs(a.flat[i])])
np_square(a) == Arr(a.shape, [i \in 1..Size(a) |-> FSq(a.flat[i])])

-----------------------------------------------------------------------------
(* Array utilities the class calls (numpy, astrofunc.util)                 *)

\* np.repeat(a, k, axis=0) of a vector: every entry k times in a row
repeat1d(a, k) ==
  Vec([q \in 1..(Size(a) * k) |-> a.flat[((q - 1) \div k) + 1]])

\* np.repeat(a, k, axis=0) of a 2d grid: every row k times in a row
repeat_rows(a, k) ==
  LET r == a.shape[1]
      c == a.shape[2]
  IN  Arr(<<r * k, c>>,
          [q \in 1..(r * k * c) |->
             a.flat[(((q - 1) \div c) \div k) * c + ((q - 1) % c) + 1]])

\* util.array2image(array, nx, ny): array.reshape(nx, ny)
util_array2image(array, nx, ny) == Arr(<<nx, ny>>, array.flat)
util_array2image_raises(array, nx, ny) == Size(array) # nx * ny

\* util.image2array(image): image.reshape(nx * ny)
util_image2array(image) == Vec(image.flat)

\* util.re_size(image, factor): the mean over factor x factor blocks
re_size(image, factor) ==
  LET r == image.shape[1] \div factor
      c == image.shape[2] \div factor
      C == image.shape[2]
      Block(i, j) ==
        [q \in 1..(factor * factor) |->
           image.flat[(i * factor + ((q - 1) \div factor)) * C
                      + j * factor + ((q - 1) % factor) + 1]]
  IN  Arr(<<r, c>>,
          [p \in 1..(r * c) |->
             FDiv(FSumSeq(Block((p - 1) \div c, (p - 1) % c)),
                  FInt(factor * factor))])

\* util.make_grid(numPix, 1, subgrid_res=1, left_lower=False): a regular grid
\* of numPix x numPix pixel centres, x running fastest, centred on 0
make_grid(numPix) ==
  LET shift == Fr(numPix - 1, 2)
  IN  <<Vec([p \in 1..(numPix * numPix) |-> FSub(FInt((p - 1) % numPix), shift)]),
        Vec([p \in 1..(numPix * numPix) |-> FSub(FInt((p - 1) \div numPix), shift)])>>

\* util.make_subgrid(x, y, subgrid_res) for one coordinate: every pixel of the
\* n x n grid is split in subgrid_res x subgrid_res sub-pixel centres
make_subgrid1(coord, n, k) ==
  LET img(i, j) == coord.flat[i * n + j + 1]
      d_x == FSub(img(0, 1), img(0, 0))
      d_y == FSub(img(1, 0), img(0, 0))
      off(a) == Fr(2 * a + 1 - k, 2 * k)
  IN  Vec([q \in 1..(n * k * n * k) |->
             LET I == (q - 1) \div (n * k)
                 J == (q - 1) % (n * k)
             IN  FAdd(img(I \div k, J \div k),
                      FAdd(FMul(d_x, off(J % k)), FMul(d_y, off(I % k))))])

-----------------------------------------------------------------------------
(* Data: masks and reshaping                                               *)

\* variant: the repeated vector is reshaped with the factor on the other axis
_subgrid_idex_other_axis(idex_mask, subgrid_res, nx, ny) ==
  LET rep == repeat1d(idex_mask, subgrid_res)
      img == util_array2image(rep, nx * subgrid_res, ny)
      rows == repeat_rows(img, subgrid_res)
  IN  util_image2array(rows)

\* Data._subgrid_idex
_subgrid_idex(idex_mask, subgrid_res, nx, ny) ==
  LET rep == repeat1d(idex_mask, subgrid_res)
      img == util_array2image(rep, nx, ny * subgrid_res)
      rows == repeat_rows(img, subgrid_res)
  IN  util_image2array(rows)

\* Data.mask (property)
mask == IF self._lens_light_mask THEN self._mask_lens_light ELSE self._mask

\* Data.numData_evaluate (property)
numData_evaluate == np_sum(mask)

\* Coordinates.pixel_size: the geometric mean pixel size, the square root of
\* the determinant of the pixel-to-angle transform
pixel_size(coords) ==
  LET T == coords.transform_pix2angle
  IN  ISqrt(IAbs(T[1][1] * T[2][2] - T[1][2] * T[2][1]))

\* Data.deltaPix (property)
deltaPix == pixel_size(self._coords)

\* Data.array2image: the index mask used, and whether the call raises
a2i_mask(subrid_res) ==
  IF subrid_res > 1 THEN self._idex_mask_sub ELSE self._idex_mask
array2image_raises(array, subrid_res) ==
  LET nx == self._nx * subrid_res
      ny == self._ny * subrid_res
  IN  IF self._idex_mask_bool
      THEN \/ Size(a2i_mask(subrid_res)) # nx * ny
           \/ /\ Size(array) # 1
              /\ Size(array) # CountTo(EqOne(a2i_mask(subrid_res)), nx * ny)
      ELSE util_array2image_raises(array, nx, ny)
array2image(array, subrid_res) ==
  LET nx == self._nx * subrid_res
      ny == self._ny * subrid_res
      keep == EqOne(a2i_mask(subrid_res))
      grid1d ==
        IF self._idex_mask_bool
        THEN BoolAssign(Arr(<<nx * ny>>, Const(nx * ny, FInt(0))), keep,
                        IF Size(array) = 1
                        THEN Const(CountTo(keep, nx * ny), array.flat[1])
                        ELSE array.flat)
        ELSE array
  IN  util_array2image(grid1d, nx, ny)

\* variant: the index mask is not applied
image2array_unmasked(image) == util_image2array(image)

\* Data.image2array
image2array(image) ==
  LET array == util_image2array(image)
  IN  IF self._idex_mask_bool
      THEN BoolIndex(array, EqOne(self._idex_mask))
      ELSE array
image2array_raises(image) ==
  self._idex_mask_bool /\ Size(image) # Size(self._idex_mask)

-----------------------------------------------------------------------------
(* Data.covariance_matrix(d, sigma_b, f)                                   *)

\* isinstance(f, int) or isinstance(f, float)
cm_scalar(f) == IsScalar(f)

\* the object f refers to when the clamp is done: a scalar is rebound to 1
\* locally, an array is changed in place
cm_floor(f) == FDiv(np_mean(f), FInt(10))
cm_f(f) ==
  IF cm_scalar(f)
  THEN (IF FLe(f.flat[1], FInt(0)) THEN Scalar(FInt(1)) ELSE f)
  ELSE BoolFill(f, [i \in 1..Size(f) |-> FLt(f.flat[i], cm_floor(f))], cm_floor(f))

\* the caller's object after the call
cm_f_after(f) == IF cm_scalar(f) THEN f ELSE cm_f(f)

\* np.max of an empty array raises ValueError; d_pos / f must broadcast
cm_raises(d, f) == Size(cm_f(f)) = 0 \/ ~Broadcastable(d, cm_f(f))

\* the condition under which the warning is printed
cm_warns(sigma_b, f) == FLt(FMul(sigma_b, np_max(cm_f(f))), FInt(1))

\* variant: the negative entries of d are kept
cm_d_pos_signed(d) == d

\* d_pos = zeros_like(d); d_pos[d >= 0] = d[d >= 0]
cm_d_pos(d) ==
  Arr(d.shape, [i \in 1..Size(d) |->
                  IF FGe(d.flat[i], FInt(0)) THEN d.flat[i] ELSE FInt(0)])

covariance_matrix(d, sigma_b, f) ==
  LET quot == np_divide(cm_d_pos(d), cm_f(f))
      s2 == FSq(sigma_b)
  IN  Arr(quot.shape, [i \in 1..Size(quot) |-> FAdd(quot.flat[i], s2)])

-----------------------------------------------------------------------------
(* Data.__init__(kwargs_data, subgrid_res, psf_subgrid, lens_light_mask)   *)

Has(key) == key \in DOMAIN kwargs_data
NoObject == [none |-> TRUE]
NoArray == Scalar(FInt(0))
NoCall == [op |-> "none", args |-> <<>>, err |-> "none", val |-> <<>>]
Call(op, args, err, val) == [op |-> op, args |-> args, err |-> err, val |-> val]

ExposureFloor == Fr(1, 1000)

init_data ==
  IF Has("image_data") THEN kwargs_data.image_data ELSE Vec(Const(16, FInt(1)))
init_idex_mask ==
  IF Has("idex_mask") THEN kwargs_data.idex_mask ELSE ones_like(init_data)
init_sigma_b ==
  IF Has("sigma_background") THEN kwargs_data.sigma_background ELSE FInt(1)
\* exp_map[exp_map <= 0] = 10**(-3), on the caller's array
init_exp_map ==
  BoolFill(kwargs_data.exposure_map,
           [i \in 1..Size(kwargs_data.exposure_map) |->
              FLe(kwargs_data.exposure_map.flat[i], FInt(0))],
           ExposureFloor)
init_f ==
  IF Has("exposure_map") THEN BoolIndex(init_exp_map, EqOne(init_idex_mask))
  ELSE IF Has("exp_time") THEN Scalar(kwargs_data.exp_time)
  ELSE Scalar(FInt(1))
init_active == BoolIndex(init_data, EqOne(init_idex_mask))
init_nxy ==
  IF Has("numPix_xy") THEN kwargs_data.numPix_xy
  ELSE <<ISqrt(Size(init_data)), ISqrt(Size(init_data))>>
\* self._mask_pure[self._idex_mask == 0] = 0: on the caller's mask when given
init_mask_pure ==
  BoolFill(IF Has("mask") THEN kwargs_data.mask ELSE ones_like(init_data),
           EqZero(init_idex_mask), FInt(0))
init_grid ==
  IF Has("x_coords") /\ Has("y_coords")
  THEN <<kwargs_data.x_coords, kwargs_data.y_coords>>
  ELSE make_grid(ISqrt(init_nxy[1] * init_nxy[2]))
init_warnings ==
  (IF Has("image_data") THEN {} ELSE {"image_data"})
  \cup (IF Has("sigma_background") THEN {} ELSE {"sigma_background"})
  \cup (IF Has("exposure_map") \/ Has("exp_time") THEN {} ELSE {"exp_time"})

\* the caller's bundle after the constructor: the exposure map is clamped at
\* line 37, the mask is zeroed at line 57 (not reached when line 47 raises)
init_kwargs(with_mask) ==
  [key \in DOMAIN kwargs_data |->
     IF key = "exposure_map" THEN init_exp_map
     ELSE IF key = "mask" /\ with_mask THEN init_mask_pure
     ELSE kwargs_data[key]]

init_self ==
  LET idex == init_idex_mask
      keep == EqOne(idex)
      grid == init_grid
      nside == ISqrt(Size(grid[1]))
      idex_sub == _subgrid_idex(idex, ctor.subgrid_res, init_nxy[1], init_nxy[2])
  IN  [ _subgrid_res |-> ctor.subgrid_res,
        _lens_light_mask |-> ctor.lens_light_mask,
        _idex_mask |-> idex,
        _idex_mask_bool |-> Has("idex_mask"),
        _sigma_b |-> init_sigma_b,
        _exp_map |-> cm_f_after(init_f),
        _data |-> init_active,
        _data_pure |-> init_data,
        C_D |-> covariance_matrix(init_active, init_sigma_b, init_f),
        _nx |-> init_nxy[1],
        _ny |-> init_nxy[2],
        _mask |-> IF Has("mask") THEN BoolIndex(kwargs_data.mask, keep)
                  ELSE ones_like(init_active),
        _mask_pure |-> init_mask_pure,
        _mask_lens_light |->
          IF Has("mask_lens_light") THEN BoolIndex(kwargs_data.mask_lens_light, keep)
          ELSE ones_like(init_active),
        _x_grid_all |-> grid[1],
        _y_grid_all |-> grid[2],
        x_grid |-> BoolIndex(grid[1], keep),
        y_grid |-> BoolIndex(grid[2], keep),
        _idex_mask_sub |-> idex_sub,
        x_grid_sub |-> BoolIndex(make_subgrid1(grid[1], nside, ctor.subgrid_res),
                                 EqOne(idex_sub)),
        y_grid_sub |-> BoolIndex(make_subgrid1(grid[2], nside, ctor.subgrid_res),
                                 EqOne(idex_sub)),
        _psf_subgrid |-> ctor.psf_subgrid,
        _coords |->
          [transform_pix2angle |->
             IF Has("transform_pix2angle") THEN kwargs_data.transform_pix2angle
             ELSE <<<<1, 0>>, <<0, 1>>>>,
           ra_at_xy_0 |-> IF Has("ra_at_xy_0") THEN kwargs_data.ra_at_xy_0 ELSE 0,
           dec_at_xy_0 |-> IF Has("dec_at_xy_0") THEN kwargs_data.dec_at_xy_0 ELSE 0] ]

Construct ==
  /\ pc = "new"
  /\ IF cm_raises(init_active, init_f)
     THEN /\ pc' = "failed"
          /\ self' = NoObject
          /\ kwargs_data' = init_kwargs(FALSE)
          /\ ret' = Call("__init__", <<>>, "ValueError", <<>>)
          /\ stdout' = init_warnings
     ELSE /\ pc' = "ready"
          /\ self' = init_self
          /\ kwargs_data' = init_kwargs(TRUE)
          /\ ret' = Call("__init__", <<>>, "none", <<>>)
          /\ stdout' = init_warnings
                       \cup (IF cm_warns(init_sigma_b, init_f) THEN {"sigma_b*f"} ELSE {})
  /\ UNCHANGED <<kwargs_in, ctor, f_obj>>

-----------------------------------------------------------------------------
(* Fit statistics                                                          *)

\* (model - self._data): the first operation of all three statistics; the
\* other operands (C_D, the mask) have the length of self._data
stat_raises(model, error_map) ==
  \/ ~Broadcastable(model, self._data)
  \/ ~Broadcastable(np_subtract(model, self._data), error_map)

stat_diff(model) == np_subtract(model, self._data)
stat_var(error_map) == np_add(self.C_D, np_abs(error_map))

\* Data.reduced_residuals: entry i is num[i] / sqrt(var[i]); the square root is
\* kept symbolic
reduced_residuals(model, error_map) ==
  [num |-> np_multiply(stat_diff(model), mask),
   var |-> stat_var(error_map)]

\* (model - data)**2 / (C_D + |model_error|) * mask
stat_X2(model, model_error) ==
  np_multiply(np_divide(np_square(stat_diff(model)), stat_var(model_error)), mask)

\* Data.log_likelihood
log_likelihood(model, model_error) ==
  FDiv(FNeg(np_sum(stat_X2(model, model_error))), FInt(2))

\* Data.reduced_chi2
reduced_chi2(model, error_map) ==
  np_sum(np_divide(stat_X2(model, error_map), Scalar(np_sum(mask))))

-----------------------------------------------------------------------------
(* PSF convolution and resampling.  The numeric filters of scipy and        *)
(* astrofunc are not evaluated: a filtered grid is kept as the grid the    *)
(* library was handed (src) and the library calls made on it, in order.    *)

Sym(src, calls, shape) == [src |-> src, calls |-> calls, shape |-> shape]
IsSym(x) == "calls" \in DOMAIN x
SymApply(x, call, shape) == Sym(x.src, Append(x.calls, call), shape)

HasKey(kwargs, key) == key \in DOMAIN kwargs
\* kwargs.get('psf_type', 'NONE')
psf_type_of(kwargs) == IF HasKey(kwargs, "psf_type") THEN kwargs.psf_type ELSE "NONE"

\* the pixel kernel psf_convolution convolves with (lines 285-293)
psf_kernel(kwargs) ==
  IF self._psf_subgrid
  THEN LET n == kwargs.kernel_pixel.shape[1]
           m == n * self._subgrid_res
           n_new == IF m % 2 = 0 THEN m - 1 ELSE m
       IN  Sym(kwargs.kernel_point_source,
               <<[fn |-> "util.subgrid_kernel", subgrid_res |-> self._subgrid_res, odd |-> TRUE],
                 [fn |-> "util.cut_psf", psf_size |-> n_new]>>,
               <<n_new, n_new>>)
  ELSE kwargs.kernel_pixel

\* FFTConvolve.fftconvolve multiplies the grid's transform by the precomputed
\* one: it raises when that was computed for another padded shape
fft_fast_raises(grid, kernel, kernel_fft) ==
  kernel_fft.fshape # <<grid.shape[1] + kernel.shape[1] - 1,
                        grid.shape[2] + kernel.shape[2] - 1>>

\* the exception psf_convolution raises, "none" when it returns
psf_convolution_err(grid, grid_scale, kwargs) ==
  LET psf_type == psf_type_of(kwargs)
  IN  IF psf_type = "NONE" THEN "none"
      ELSE IF psf_type = "gaussian"
      THEN (IF HasKey(kwargs, "sigma") THEN "none" ELSE "KeyError")
      ELSE IF psf_type = "pixel"
      THEN IF ~HasKey(kwargs, "kernel_pixel") THEN "KeyError"
           ELSE IF self._psf_subgrid /\ ~HasKey(kwargs, "kernel_point_source")
           THEN "KeyError"
           ELSE IF HasKey(kwargs, "kernel_fft") /\ ~HasKey(kwargs, "kernel_pixel_fft")
           THEN "KeyError"
           ELSE "none"
      ELSE "ValueError"

\* Data.psf_convolution
psf_convolution(grid, grid_scale, kwargs) ==
  LET psf_type == psf_type_of(kwargs)
  IN  IF psf_type = "NONE" THEN grid
      ELSE IF psf_type = "gaussian"
      THEN LET sigma == FDiv(kwargs.sigma, grid_scale)
               sigma_truncate ==
                 IF HasKey(kwargs, "truncate") THEN FDiv(kwargs.truncate, grid_scale)
                 ELSE FDiv(FInt(3), grid_scale)
           IN  Sym(grid,
                   <<[fn |-> "ndimage.gaussian_filter", sigma |-> sigma,
                      mode |-> "nearest", truncate |-> FMul(sigma_truncate, sigma)]>>,
                   grid.shape)
      ELSE LET kernel == psf_kernel(kwargs)
           IN  IF HasKey(kwargs, "kernel_fft")
                  /\ ~fft_fast_raises(grid, kernel, kwargs.kernel_pixel_fft)
               THEN Sym(grid,
                        <<[fn |-> "fft.fftconvolve", kernel |-> kernel,
                           kernel_fft |-> kwargs.kernel_pixel_fft, mode |-> "same"]>>,
                        grid.shape)
               ELSE Sym(grid,
                        <<[fn |-> "signal.fftconvolve", kernel |-> kernel,
                           mode |-> "same"]>>,
                        grid.shape)

\* util.re_size and Data.image2array of a filtered grid
sym_re_size(x, factor) ==
  IF IsSym(x)
  THEN SymApply(x, [fn |-> "util.re_size", factor |-> factor],
                <<x.shape[1] \div factor, x.shape[2] \div factor>>)
  ELSE re_size(x, factor)
sym_image2array(x) ==
  IF IsSym(x)
  THEN SymApply(x, [fn |-> "image2array"],
                <<IF self._idex_mask_bool
                  THEN CountTo(EqOne(self._idex_mask), Size(self._idex_mask))
                  ELSE x.shape[1] * x.shape[2]>>)
  ELSE image2array(x)

\* the branch of re_size_convolve that only re-bins (line 315)
rsc_skip(kwargs_psf, unconvolved) == unconvolved \/ kwargs_psf.psf_type = "NONE"
\* the test that selects binning before convolving (line 320): the dict
\* kwargs_psf is compared with the string 'pixel', which is never equal
DictEqStr(dict, str) == FALSE
rsc_bin_first(kwargs_psf) == DictEqStr(kwargs_psf, "pixel") /\ ~self._psf_subgrid

\* the exception re_size_convolve raises, "none" when it returns
re_size_convolve_err(image, kwargs_psf, unconvolved) ==
  IF array2image_raises(image, self._subgrid_res) THEN "ValueError"
  ELSE IF ~unconvolved /\ ~HasKey(kwargs_psf, "psf_type") THEN "KeyError"
  ELSE IF rsc_skip(kwargs_psf, unconvolved) THEN "none"
  ELSE psf_convolution_err(array2image(image, self._subgrid_res),
                           Fr(deltaPix, self._subgrid_res), kwargs_psf)

\* Data.re_size_convolve
re_size_convolve(image, kwargs_psf, unconvolved) ==
  LET img == array2image(image, self._subgrid_res)
      gridScale == Fr(deltaPix, self._subgrid_res)
      grid_final ==
        IF rsc_skip(kwargs_psf, unconvolved)
        THEN re_size(img, self._subgrid_res)
        ELSE IF rsc_bin_first(kwargs_psf)
        THEN psf_convolution(re_size(img, self._subgrid_res), gridScale, kwargs_psf)
        ELSE sym_re_size(psf_convolution(img, gridScale, kwargs_psf),
                         self._subgrid_res)
  IN  sym_image2array(grid_final)

\* Data.flux_aperture; util.get_mask gives 1 outside the radius and 0 inside
flux_aperture(ra_pos, dec_pos, width) ==
  LET r == FDiv(width, FInt(2))
      R2(i) == FAdd(FSq(FSub(self._x_grid_all.flat[i], ra_pos)),
                    FSq(FSub(self._y_grid_all.flat[i], dec_pos)))
      outside(i) == FLt(r, FInt(0)) \/ FGt(R2(i), FSq(r))
      mask1d == Vec([i \in 1..Size(self._x_grid_all) |->
                       IF outside(i) THEN FInt(0) ELSE FInt(1)])
  IN  np_sum(np_multiply(self._data_pure, mask1d))

\* Data.psf_fwhm
psf_fwhm_err(kwargs) ==
  LET psf_type == psf_type_of(kwargs)
  IN  IF psf_type = "NONE" THEN "none"
      ELSE IF psf_type = "gaussian"
      THEN (IF HasKey(kwargs, "sigma") THEN "none" ELSE "KeyError")
      ELSE IF psf_type = "pixel"
      THEN (IF HasKey(kwargs, "kernel_point_source") THEN "none" ELSE "KeyError")
      ELSE "ValueError"
psf_fwhm(kwargs) ==
  LET psf_type == psf_type_of(kwargs)
  IN  IF psf_type = "NONE" THEN [fn |-> "const", value |-> FInt(0)]
      ELSE IF psf_type = "gaussian"
      THEN [fn |-> "util.sigma2fwhm", sigma |-> kwargs.sigma]
      ELSE [fn |-> "util.fwhm_kernel", kernel |-> kwargs.kernel_point_source,
            times |-> deltaPix]

-----------------------------------------------------------------------------
(* Bounds and the inputs drawn                                             *)

MaxSide == 2      \* images are s x s pixels, s in 2..MaxSide
MaxRes == 2       \* subgrid_res in 1..MaxRes
MaxNx == 2        \* direct calls of _subgrid_idex: nx in 1..MaxNx
MaxNy == 3        \* direct calls of _subgrid_idex: ny in 1..MaxNy

EmptyDict == [key \in {} |-> key]
\* opt is <<>> (key absent) or <<value>>
Opt(key, opt) == IF opt = <<>> THEN EmptyDict ELSE key :> opt[1]
Maybe(S) == {<<>>} \cup {<<v>> : v \in S}

Ramp(n, from) == Vec([p \in 1..n |-> FInt(from + p - 1)])
TwoVal(n, a, b) == Vec([p \in 1..n |-> IF p = 1 THEN a ELSE b])
ZeroAt(n, Z) == Vec([p \in 1..n |-> IF p \in Z THEN FInt(0) ELSE FInt(1)])
AllBits(n) == {Vec(f) : f \in [1..n -> {FInt(0), FInt(1)}]}
EdgeBits(n) == {ZeroAt(n, Z) : Z \in {{}, {1}, {n}, 1..n}}
\* every index mask of a 2 x 2 image; of a larger image the masks with a
\* corner, the centre or every other pixel invalid
IndexMasks(n) ==
  IF n <= 4 THEN AllBits(n)
  ELSE EdgeBits(n) \cup {ZeroAt(n, {(n + 1) \div 2}), ZeroAt(n, {p \in 1..n : p % 2 = 0})}

Sides == 2..MaxSide
Sigmas == {Fr(1, 2), FInt(3)}
ExpTimes == {FInt(-2), FInt(0), Fr(1, 2), FInt(3)}
ExposureMaps(n) ==
  {TwoVal(n, a, b) : a \in {FInt(-1), FInt(0), Fr(1, 100), FInt(1)},
                     b \in {FInt(0), FInt(5)}}
DataVectors(n) == {TwoVal(n, FInt(-3), FInt(2)), TwoVal(n, FInt(0), FInt(-1))}
FitMasks(n) ==
  EdgeBits(n) \cup {TwoVal(n, FInt(2), Fr(1, 2)), TwoVal(n, FInt(1), FInt(0)),
                    Vec([p \in 1..n |-> IF p % 2 = 1 THEN FInt(1) ELSE FInt(-1)])}
Transforms == {<<<<1, 0>>, <<0, 1>>>>, <<<<2, 0>>, <<0, 2>>>>}

Ctor(res, psf_subgrid, lens_light_mask) ==
  [subgrid_res |-> res, psf_subgrid |-> psf_subgrid, lens_light_mask |-> lens_light_mask]

InitCommon ==
  /\ pc = "new"
  /\ self = NoObject
  /\ ret = NoCall
  /\ stdout = {}
  /\ f_obj = NoArray

\* masks and reshaping: every index mask, every subgrid resolution
InitGrid ==
  /\ InitCommon
  /\ \E s \in Sides :
       \E idex \in Maybe(IndexMasks(s * s)), nxy \in Maybe({<<s, s>>}) :
         kwargs_data = ("image_data" :> Ramp(s * s, 1)) @@ Opt("idex_mask", idex)
                       @@ Opt("numPix_xy", nxy)
  /\ \E res \in 1..MaxRes : ctor = Ctor(res, FALSE, FALSE)
  /\ kwargs_in = kwargs_data

\* noise model: data with negative entries, every kind of exposure input
InitNoise ==
  /\ InitCommon
  /\ \/ kwargs_data = EmptyDict
     \/ \E s \in Sides :
       \E data \in DataVectors(s * s),
          idex \in Maybe({ZeroAt(s * s, {1}), ZeroAt(s * s, 1..(s * s))}),
          sigma \in Sigmas, exp_time \in Maybe(ExpTimes),
          exp_map \in Maybe(ExposureMaps(s * s)), msk \in Maybe({ZeroAt(s * s, {})}) :
         /\ exp_time = <<>> \/ exp_map = <<>>
         /\ msk = <<>> \/ exp_time = <<>>
         /\ kwargs_data = ("image_data" :> data) @@ ("numPix_xy" :> <<s, s>>)
                          @@ Opt("idex_mask", idex) @@ ("sigma_background" :> sigma)
                          @@ Opt("exp_time", exp_time) @@ Opt("exposure_map", exp_map)
                          @@ Opt("mask", msk)
  /\ ctor = Ctor(1, FALSE, FALSE)
  /\ kwargs_in = kwargs_data

\* fit statistics: every fit mask and lens-light mask, both mask modes
InitStat ==
  /\ InitCommon
  /\ \E s \in Sides :
       \E data \in {Ramp(s * s, -1), TwoVal(s * s, FInt(-3), FInt(0))},
          idex \in Maybe({ZeroAt(s * s, {1}), ZeroAt(s * s, 1..(s * s))}),
          msk \in Maybe(FitMasks(s * s)),
          mll \in Maybe({ZeroAt(s * s, 1..(s * s)), TwoVal(s * s, FInt(0), FInt(1))}),
          exp_time \in Maybe({FInt(2)}) :
         kwargs_data = ("image_data" :> data) @@ ("numPix_xy" :> <<s, s>>)
                       @@ ("sigma_background" :> FInt(1))
                       @@ Opt("idex_mask", idex) @@ Opt("mask", msk)
                       @@ Opt("mask_lens_light", mll) @@ Opt("exp_time", exp_time)
  /\ \E llm \in BOOLEAN : ctor = Ctor(1, FALSE, llm)
  /\ kwargs_in = kwargs_data

\* PSF convolution and resampling: both subgrid policies, every resolution
InitPsf ==
  /\ InitCommon
  /\ \E s \in Sides :
       \E idex \in Maybe(EdgeBits(s * s)), T \in Maybe(Transforms),
          xy \in Maybe({make_grid(s)}) :
         kwargs_data = ("image_data" :> Ramp(s * s, 1)) @@ ("numPix_xy" :> <<s, s>>)
                       @@ ("sigma_background" :> FInt(1)) @@ ("exp_time" :> FInt(1))
                       @@ Opt("idex_mask", idex) @@ Opt("transform_pix2angle", T)
                       @@ (IF xy = <<>> THEN EmptyDict
                           ELSE ("x_coords" :> xy[1][1]) @@ ("y_coords" :> xy[1][2]))
  /\ \E res \in 1..MaxRes, psf_subgrid \in BOOLEAN : ctor = Ctor(res, psf_subgrid, FALSE)
  /\ kwargs_in = kwargs_data

Init == InitGrid \/ InitNoise \/ InitStat \/ InitPsf

-----------------------------------------------------------------------------
(* The arguments callers pass to the methods                               *)

NumActive == Size(self._data)
NumActiveSub == CountTo(EqOne(self._idex_mask_sub), Size(self._idex_mask_sub))
NativeShape == <<self._nx, self._ny>>
SubShape == <<self._nx * self._subgrid_res, self._ny * self._subgrid_res>>

\* model vectors: the data itself, the data shifted, vectors of other lengths, a scalar
Models ==
  {self._data, np_add(self._data, Scalar(FInt(1))), Scalar(FInt(3))}
  \cup {Vec(Const(len, FInt(3))) :
          len \in {l \in {0, 1, 2, NumActive - 1, NumActive + 1} : l >= 0}}
ErrorMaps == {Scalar(FInt(0)), Scalar(FInt(-2))}

Kernel3 == Arr(<<3, 3>>, [p \in 1..9 |-> IF p = 5 THEN Fr(1, 2) ELSE Fr(1, 16)])
FftOf(kernel, gridshape) ==
  [fshape |-> <<gridshape[1] + kernel.shape[1] - 1, gridshape[2] + kernel.shape[2] - 1>>,
   kernel |-> kernel]
PixelBase ==
  ("psf_type" :> "pixel") @@ ("kernel_pixel" :> Kernel3)
  @@ ("kernel_point_source" :> Kernel3)
PsfKwargs ==
  { EmptyDict,
    "psf_type" :> "NONE",
    "psf_type" :> "moffat",
    "psf_type" :> "gaussian",
    ("psf_type" :> "gaussian") @@ ("sigma" :> FInt(1)),
    ("psf_type" :> "gaussian") @@ ("sigma" :> FInt(1)) @@ ("truncate" :> FInt(2)),
    "psf_type" :> "pixel",
    ("psf_type" :> "pixel") @@ ("kernel_pixel" :> Kernel3),
    PixelBase,
    PixelBase @@ ("kernel_fft" :> TRUE),
    PixelBase @@ ("kernel_pixel_fft" :> FftOf(Kernel3, NativeShape)) }
  \cup { PixelBase @@ ("kernel_fft" :> TRUE) @@ ("kernel_pixel_fft" :> FftOf(Kernel3, sh)) :
           sh \in {NativeShape, SubShape, <<1, 1>>} }

-----------------------------------------------------------------------------
(* The methods as calls on a built object                                  *)

Query(call) ==
  /\ pc' = "returned"
  /\ ret' = call
  /\ stdout' = {}
  /\ UNCHANGED <<kwargs_data, kwargs_in, ctor, self, f_obj>>

\* single-threaded use: the caller takes what the call returned and goes on
Return ==
  /\ pc = "returned"
  /\ pc' = "ready"
  /\ ret' = NoCall
  /\ stdout' = {}
  /\ f_obj' = NoArray
  /\ UNCHANGED <<kwargs_data, kwargs_in, ctor, self>>

ReducedResiduals ==
  /\ pc = "ready"
  /\ \E model \in Models, error_map \in ErrorMaps :
       LET args == [model |-> model, error_map |-> error_map]
       IN  Query(IF stat_raises(model, error_map)
                 THEN Call("reduced_residuals", args, "ValueError", <<>>)
                 ELSE Call("reduced_residuals", args, "none",
                           reduced_residuals(model, error_map)))

\* variant: line 253 active and assigning the field, so that the covariance is
\* taken from the model on every call
LogLikelihoodFromModel ==
  /\ pc = "ready"
  /\ \E model \in Models, model_error \in ErrorMaps :
       LET args == [model |-> model, error_map |-> model_error]
       IN  /\ ret' = IF stat_raises(model, model_error)
                     THEN Call("log_likelihood", args, "ValueError", <<>>)
                     ELSE Call("log_likelihood", args, "none",
                               log_likelihood(model, model_error))
           /\ self' = IF cm_raises(model, self._exp_map) THEN self
                      ELSE [self EXCEPT !.C_D =
                              covariance_matrix(model, self._sigma_b, self._exp_map)]
  /\ pc' = "returned"
  /\ stdout' = {}
  /\ UNCHANGED <<kwargs_data, kwargs_in, ctor, f_obj>>

LogLikelihood ==
  /\ pc = "ready"
  /\ \E model \in Models, model_error \in ErrorMaps :
       LET args == [model |-> model, error_map |-> model_error]
       IN  Query(IF stat_raises(model, model_error)
                 THEN Call("log_likelihood", args, "ValueError", <<>>)
                 ELSE Call("log_likelihood", args, "none",
                           log_likelihood(model, model_error)))

ReducedChi2 ==
  /\ pc = "ready"
  /\ \E model \in Models, error_map \in ErrorMaps :
       LET args == [model |-> model, error_map |-> error_map]
       IN  Query(IF stat_raises(model, error_map)
                 THEN Call("reduced_chi2", args, "ValueError", <<>>)
                 ELSE Call("reduced_chi2", args, "none",
                           reduced_chi2(model, error_map)))

PsfConvolution ==
  /\ pc = "ready"
  /\ \E grid \in {util_array2image(self._data_pure, self._nx, self._ny)},
        grid_scale \in {FInt(1), Fr(1, 2)}, kwargs \in PsfKwargs :
       LET args == [grid |-> grid, grid_scale |-> grid_scale, kwargs |-> kwargs]
           err == psf_convolution_err(grid, grid_scale, kwargs)
       IN  Query(IF err # "none"
                 THEN Call("psf_convolution", args, err, <<>>)
                 ELSE Call("psf_convolution", args, "none",
                           psf_convolution(grid, grid_scale, kwargs)))

ReSizeConvolve ==
  /\ pc = "ready"
  /\ \E image \in {Ramp(NumActiveSub, 1), Ramp(NumActiveSub + 2, 1)},
        kwargs_psf \in PsfKwargs, unconvolved \in BOOLEAN :
       LET args == [image |-> image, kwargs_psf |-> kwargs_psf,
                    unconvolved |-> unconvolved]
           err == re_size_convolve_err(image, kwargs_psf, unconvolved)
       IN  Query(IF err # "none"
                 THEN Call("re_size_convolve", args, err, <<>>)
                 ELSE Call("re_size_convolve", args, "none",
                           re_size_convolve(image, kwargs_psf, unconvolved)))

FluxAperture ==
  /\ pc = "ready"
  /\ \E ra_pos \in {FInt(0), Fr(1, 2)}, width \in {FInt(0), FInt(1), FInt(4)} :
       Query(Call("flux_aperture",
                  [ra_pos |-> ra_pos, dec_pos |-> FInt(0), width |-> width], "none",
                  flux_aperture(ra_pos, FInt(0), width)))

PsfFwhm ==
  /\ pc = "ready"
  /\ \E kwargs \in PsfKwargs :
       Query(IF psf_fwhm_err(kwargs) # "none"
             THEN Call("psf_fwhm", [kwargs |-> kwargs], psf_fwhm_err(kwargs), <<>>)
             ELSE Call("psf_fwhm", [kwargs |-> kwargs], "none", psf_fwhm(kwargs)))

Array2Image ==
  /\ pc = "ready"
  /\ \E subrid_res \in {1, self._subgrid_res} :
       \E array \in {self._data, Ramp(NumActiveSub, 1), Vec(<<FInt(7)>>),
                     Ramp(NumActive + 2, 1)} :
         LET args == [array |-> array, subrid_res |-> subrid_res]
         IN  Query(IF array2image_raises(array, subrid_res)
                   THEN Call("array2image", args, "ValueError", <<>>)
                   ELSE Call("array2image", args, "none",
                             array2image(array, subrid_res)))

Image2Array ==
  /\ pc = "ready"
  /\ \E image \in {util_array2image(Ramp(self._nx * self._ny, 1), self._nx, self._ny),
                   util_array2image(self._data_pure, self._nx, self._ny),
                   Arr(<<1, 1>>, <<FInt(7)>>)} :
       Query(IF image2array_raises(image)
             THEN Call("image2array", [image |-> image], "IndexError", <<>>)
             ELSE Call("image2array", [image |-> image], "none", image2array(image)))

\* a direct call of _subgrid_idex on an nx x ny mask whose flags are those of
\* the object's index mask, taken cyclically
SubgridIdex ==
  /\ pc = "ready"
  /\ \E nx \in 1..MaxNx, ny \in 1..MaxNy, subgrid_res \in 1..MaxRes :
       /\ LET idex_mask ==
                Vec([p \in 1..(nx * ny) |->
                       self._idex_mask.flat[((p - 1) % Size(self._idex_mask)) + 1]])
          IN  Query(Call("_subgrid_idex",
                         [idex_mask |-> idex_mask, subgrid_res |-> subgrid_res,
                          nx |-> nx, ny |-> ny], "none",
                         _subgrid_idex(idex_mask, subgrid_res, nx, ny)))

\* a direct call of covariance_matrix on arrays of the caller
CovarianceMatrix ==
  /\ pc = "ready"
  /\ \E sigma_b \in {self._sigma_b, Fr(1, 2)},
        f \in {Scalar(FInt(0)), Scalar(FInt(3)), TwoVal(NumActive, Fr(1, 100), FInt(5)),
               TwoVal(NumActive + 2, FInt(1), FInt(1))} :
       LET d == self._data
           args == [d |-> d, sigma_b |-> sigma_b, f |-> f]
       IN  /\ ret' = IF cm_raises(d, f)
                     THEN Call("covariance_matrix", args, "ValueError", <<>>)
                     ELSE Call("covariance_matrix", args, "none",
                               covariance_matrix(d, sigma_b, f))
           /\ f_obj' = cm_f_after(f)
           /\ stdout' = IF ~cm_raises(d, f) /\ cm_warns(sigma_b, f)
                        THEN {"sigma_b*f"} ELSE {}
           /\ pc' = "returned"
           /\ UNCHANGED <<kwargs_data, kwargs_in, ctor, self>>

Next ==
  \/ Construct
  \/ ReducedResiduals
  \/ LogLikelihood
  \/ ReducedChi2
  \/ PsfConvolution
  \/ ReSizeConvolve
  \/ FluxAperture
  \/ PsfFwhm
  \/ Array2Image
  \/ Image2Array
  \/ SubgridIdex
  \/ CovarianceMatrix
  \/ Return

Spec == Init /\ [][Next]_vars
SpecGrid == InitGrid /\ [][Next]_vars
SpecNoise == InitNoise /\ [][Next]_vars
SpecStat == InitStat /\ [][Next]_vars
SpecPsf == InitPsf /\ [][Next]_vars

-----------------------------------------------------------------------------
(* Properties                                                              *)

Built == pc \in {"ready", "returned"}
Returned(op) == pc = "returned" /\ ret.op = op
ConvFns == {"signal.fftconvolve", "fft.fftconvolve", "ndimage.gaussian_filter"}
StatOps == {"reduced_residuals", "log_likelihood", "reduced_chi2"}
QueryOps ==
  StatOps \cup {"psf_convolution", "re_size_convolve", "flux_aperture", "array2image",
                "image2array", "psf_fwhm"}

\* C1: in re_size_convolve with convolution not skipped, a pixel kernel on an
\* object built with psf_subgrid=False is applied to the grid already binned to
\* native resolution (no binning by a factor > 1 follows the filter); in every
\* other case the filter is applied to the subgrid-resolution grid and the
\* result is binned afterwards.
C1_BinFirstForNativePixelKernel ==
  (/\ Returned("re_size_convolve")
   /\ ret.err = "none"
   /\ ~ret.args.unconvolved
   /\ ret.args.kwargs_psf.psf_type # "NONE")
  => LET v == ret.val
         img == array2image(ret.args.image, self._subgrid_res)
     IN  IF ret.args.kwargs_psf.psf_type = "pixel" /\ ~self._psf_subgrid
         THEN /\ v.src = re_size(img, self._subgrid_res)
              /\ v.calls[1].fn \in ConvFns
              /\ \A n \in 2..Len(v.calls) :
                   v.calls[n].fn = "util.re_size" => v.calls[n].factor = 1
         ELSE /\ v.src = img
              /\ v.calls[1].fn \in ConvFns
              /\ v.calls[2].fn = "util.re_size"
              /\ v.calls[2].factor = self._subgrid_res

\* C2: a fit statistic called with a model whose length differs from the
\* length of the stored active data vector (a scalar or length-1 model
\* included) fails and returns no statistic.
C2_LengthMismatchFails ==
  (/\ pc = "returned"
   /\ ret.op \in StatOps
   /\ (IsScalar(ret.args.model) \/ ret.args.model.shape[1] # NumActive))
  => ret.err = "ValueError"

\* C3: psf_convolution with a pixel kernel and a frequency-domain kernel
\* supplied by the caller never raises because of the fast path: it returns the
\* fast-path result when that works and the general 'same'-mode convolution of
\* the grid with the kernel otherwise.
C3_FastPathRecovered ==
  (/\ Returned("psf_convolution")
   /\ psf_type_of(ret.args.kwargs) = "pixel"
   /\ HasKey(ret.args.kwargs, "kernel_pixel")
   /\ (self._psf_subgrid => HasKey(ret.args.kwargs, "kernel_point_source"))
   /\ (HasKey(ret.args.kwargs, "kernel_fft") \/ HasKey(ret.args.kwargs, "kernel_pixel_fft")))
  => /\ ret.err = "none"
     /\ ret.val.src = ret.args.grid
     /\ Len(ret.val.calls) = 1
     /\ ret.val.calls[1].fn \in {"fft.fftconvolve", "signal.fftconvolve"}
     /\ ret.val.calls[1].kernel = psf_kernel(ret.args.kwargs)
     /\ (ret.val.calls[1].fn = "fft.fftconvolve"
           => /\ HasKey(ret.args.kwargs, "kernel_pixel_fft")
              /\ ~fft_fast_raises(ret.args.grid, psf_kernel(ret.args.kwargs),
                                  ret.args.kwargs.kernel_pixel_fft))

\* the exposure as covariance_matrix uses it: a scalar <= 0 counts as 1
ClampedMax(exposure) ==
  IF IsScalar(exposure)
  THEN (IF FLe(exposure.flat[1], FInt(0)) THEN FInt(1) ELSE exposure.flat[1])
  ELSE np_max(exposure)

\* C4: covariance_matrix prints the instability warning exactly when
\* sigma_b * max(clamped exposure) >= 1, and returns the variance vector in
\* both cases.
C4_WarningIffUnstable ==
  /\ (Returned("covariance_matrix") /\ ret.err = "none")
       => /\ ("sigma_b*f" \in stdout)
               <=> FGe(FMul(ret.args.sigma_b, ClampedMax(f_obj)), FInt(1))
          /\ Size(ret.val) = Size(ret.args.d)
  /\ (pc = "ready" /\ ret.op = "__init__")
       => /\ ("sigma_b*f" \in stdout)
               <=> FGe(FMul(self._sigma_b, ClampedMax(self._exp_map)), FInt(1))
          /\ Size(self.C_D) = NumActive

\* the exposure of active pixel i as C5 states it, from the bundle as
\* the caller passed it
StatedExposure(i) ==
  IF "exposure_map" \in DOMAIN kwargs_in
  THEN LET raw == kwargs_in.exposure_map
           pos == [p \in 1..Size(raw) |->
                     IF FLe(raw.flat[p], FInt(0)) THEN ExposureFloor ELSE raw.flat[p]]
           act == SelectIdx(pos, EqOne(self._idex_mask), 1)
           floor == FDiv(FDiv(FSumSeq(act), FInt(Len(act))), FInt(10))
       IN  IF FLt(act[i], floor) THEN floor ELSE act[i]
  ELSE IF "exp_time" \in DOMAIN kwargs_in /\ FGt(kwargs_in.exp_time, FInt(0))
  THEN kwargs_in.exp_time
  ELSE FInt(1)

\* the state a successful constructor call leaves
Constructed == pc = "ready" /\ ret.op = "__init__"

\* C5: every entry of C_D computed at construction is > 0 and equals
\* max(data, 0) / clamped exposure + sigma_b^2 (background sigma > 0), where
\* the exposure is the one handed to covariance_matrix: the scalar (1 when it
\* is <= 0), or the active entries of the map raised to a tenth of their mean.
C5_CovariancePositive ==
  Constructed =>
    /\ Size(self.C_D) = NumActive
    /\ \A i \in 1..NumActive :
         LET d == self._data.flat[i]
             d_pos == IF FLt(d, FInt(0)) THEN FInt(0) ELSE d
         IN  /\ FGt(self.C_D.flat[i], FInt(0))
             /\ self.C_D.flat[i]
                  = FAdd(FDiv(d_pos, StatedExposure(i)), FSq(self._sigma_b))

C5_Witness ==
  /\ Constructed
  /\ "exposure_map" \in DOMAIN kwargs_in
  /\ NumActive >= 2
  /\ \E i \in 1..NumActive : FLt(self._data.flat[i], FInt(0))
  /\ \E p \in 1..Size(self._idex_mask) :
       /\ self._idex_mask.flat[p] = FInt(1)
       /\ FLe(kwargs_in.exposure_map.flat[p], FInt(0))
  /\ \E i \in 1..NumActive : self.C_D.flat[i] # FSq(self._sigma_b)

\* C6: with model equal to the stored active data vector and model_error = 0,
\* log_likelihood and reduced_chi2 return exactly 0, whatever the fit mask.
C6_ExactMatchIsZero ==
  (/\ pc = "returned"
   /\ ret.op \in {"log_likelihood", "reduced_chi2"}
   /\ ret.args.model = self._data
   /\ ret.args.error_map = Scalar(FInt(0)))
  => ret.err = "none" /\ ret.val = FInt(0)

\* the number of valid pixels among the first p
Rank(p) == Cardinality({q \in 1..p : self._idex_mask.flat[q] = FInt(1)})
ScatterOf(grid, array) ==
  /\ grid.shape = <<self._nx, self._ny>>
  /\ \A p \in 1..(self._nx * self._ny) :
       IF self._idex_mask.flat[p] = FInt(1)
       THEN grid.flat[p] = array.flat[Rank(p)]
       ELSE grid.flat[p] = FInt(0)
TestImages ==
  {util_array2image(Ramp(self._nx * self._ny, 1), self._nx, self._ny),
   util_array2image(Ramp(self._nx * self._ny, -2), self._nx, self._ny),
   util_array2image(self._data_pure, self._nx, self._ny)}

\* C7: image2array(array2image(image2array(img))) = image2array(img), and
\* array2image of an active vector is a full grid that is zero where the index
\* mask is 0 and holds the vector's values, in order, where it is 1.
C7_CompactionRoundTrip ==
  Built =>
    /\ \A img \in TestImages :
         LET a == image2array(img)
         IN  /\ ~array2image_raises(a, 1)
             /\ image2array(array2image(a, 1)) = a
             /\ ScatterOf(array2image(a, 1), a)
    /\ (/\ Returned("array2image")
        /\ ret.err = "none"
        /\ ret.args.subrid_res = 1
        /\ Size(ret.args.array) = NumActive)
         => /\ ScatterOf(ret.val, ret.args.array)
            /\ image2array(ret.val) = ret.args.array

C7_Witness ==
  /\ Returned("array2image")
  /\ ret.err = "none"
  /\ ret.args.subrid_res = 1
  /\ self._idex_mask_bool
  /\ NumActive >= 2
  /\ Size(ret.args.array) = NumActive
  /\ \E p, q \in 1..Size(self._idex_mask) :
       /\ p < q
       /\ self._idex_mask.flat[p] = FInt(0)
       /\ self._idex_mask.flat[q] = FInt(1)
       /\ ret.val.flat[q] # FInt(0)

BlockUpsampled(sub, idex, k, nx, ny) ==
  /\ Size(sub) = nx * ny * k * k
  /\ (k = 1 => sub = idex)
  /\ \A i \in 0..(nx - 1), j \in 0..(ny - 1), a \in 0..(k - 1), b \in 0..(k - 1) :
       sub.flat[(i * k + a) * (ny * k) + (j * k + b) + 1] = idex.flat[i * ny + j + 1]

\* C8: the subgrid index mask has length nx*ny*k^2, equals the index mask for
\* k = 1, and carries the flag of native pixel (i, j) at all k*k positions
\* (i*k + a, j*k + b), for square and non-square images.
C8_SubgridMaskBlocks ==
  /\ Built => BlockUpsampled(self._idex_mask_sub, self._idex_mask,
                             self._subgrid_res, self._nx, self._ny)
  /\ Returned("_subgrid_idex")
       => BlockUpsampled(ret.val, ret.args.idex_mask, ret.args.subgrid_res,
                         ret.args.nx, ret.args.ny)

C8_Witness ==
  /\ Returned("_subgrid_idex")
  /\ ret.args.subgrid_res >= 2
  /\ ret.args.nx >= 2
  /\ ret.args.ny > ret.args.nx
  /\ \E p, q \in 1..Size(ret.args.idex_mask) :
       ret.args.idex_mask.flat[p] # ret.args.idex_mask.flat[q]

\* C9: no query call changes a stored field of the object (nor the caller's
\* bundle).
C9_QueriesLeaveFieldsUnchanged ==
  [][ret'.op \in QueryOps => (self' = self /\ kwargs_data' = kwargs_data)]_vars

C9_Witness ==
  /\ Returned("log_likelihood")
  /\ ret.err = "none"
  /\ ret.args.model # self._data
  /\ NumActive >= 2

\* C10: no array of the caller is changed: the configuration bundle is the
\* same after construction as before, and covariance_matrix leaves its
\* argument f as it was.
C10_InputsNotMutated ==
  /\ pc # "new" => kwargs_data = kwargs_in
  /\ Returned("covariance_matrix") => f_obj = ret.args.f

====
